---------------------------- MODULE Spec2Model ----------------------------
(***************************************************************************)
(* Content lifecycle, visibility policy and real-time fan-out of the blog *)
(* application (app/blogs, app/auth, app/notifications).                  *)
(*                                                                         *)
(* Every HTTP request runs in one database transaction (get_db commits    *)
(* when the handler returns), so a request handler is one atomic step of  *)
(* the persistent state.  create_blog commits explicitly and then calls   *)
(* the notifications manager: it is modelled in two steps, the commit and *)
(* the notification, with the request in flight in between.               *)
(*                                                                         *)
(* Where two requests on one post overlap (SpecRace) a request is two     *)
(* steps, the SELECT that loads the row and the UPDATE that is flushed    *)
(* and committed.                                                          *)
(*                                                                         *)
(* An endpoint is an operator giving, in the current state, the response  *)
(* to a request and the row it writes; the action of the endpoint applies *)
(* it.  A request that writes nothing (a read, a refused request) leaves   *)
(* the state as it is: it is a stuttering step, which [Next]_vars admits.  *)
(***************************************************************************)
EXTENDS Integers, Sequences, FiniteSets, Bags, TLC

\* ---------------------------------------------------------------- bounds
MaxBlogs == 2          \* rows the blogs table may hold
MaxTime == 3           \* last tick of the clock (datetime.utcnow)
MaxHeartbeats == 1     \* heartbeats one SSE stream may yield
MaxComments == 2       \* rows the comments table may hold
MaxRequests == 2       \* requests that may be between their SELECT and UPDATE

\* ------------------------------------------------------------- constants
NULL == 0              \* SQL NULL of a DateTime column (ticks start at 1)
NoToken == 0           \* a request without (valid) bearer credentials

PENDING == "pending"
APPROVED == "approved"
REJECTED == "rejected"
BlogStatus == {PENDING, APPROVED, REJECTED}

USER == "user"
ADMIN == "admin"
L1_APPROVER == "l1_approver"

\* The users table: rows never change in the modelled operations.
UserIds == 1..5
UserRoleOf(u) ==
    CASE u = 1 -> USER
      [] u = 2 -> USER
      [] u = 3 -> ADMIN
      [] u = 4 -> L1_APPROVER
      [] OTHER -> ADMIN
UserIsActive(u) == u # 5
Callers == {NoToken} \cup UserIds

\* Request payloads.  images is the JSON column, as JSON text; Unset marks
\* a field absent from a BlogUpdate (model_dump(exclude_unset=True)).
Unset == "<unset>"

CreatePayloads ==
    {[title |-> "T1", content |-> "C1", images |-> "null"],
     [title |-> "T2", content |-> "C1", images |-> "null"]}
UpdatePayloads ==
    {[title |-> "T3", content |-> Unset, images |-> Unset],
     [title |-> Unset, content |-> "C2", images |-> "[\"img\"]"],
     [title |-> Unset, content |-> Unset, images |-> Unset]}

\* The SSE subscriptions (their uuid4 client ids) and the websockets that
\* may be opened over a run.
ClientIds == {"c1", "c2"}
WebSockets == {"ws1", "ws2"}

VARIABLES
    blogs,        \* the blogs table: sequence of rows, row i has id i
    now,          \* the clock read by datetime.utcnow()
    creating,     \* create_blog calls between their commit and their notify
    notified,     \* history: the bag of messages notify_new_pending_blog was called for
    clients,      \* NotificationsManager._clients: client id -> queue
    connections,  \* ChatManager._connections: blog id -> set of websockets
    sockets,      \* websocket -> its handler's position and the frames it got
    comments,     \* the rows inserted into the comments table, by id
    streams,      \* SSE subscription -> [state, yielded]
    requests,     \* HTTP requests between their SELECT and their UPDATE
    last          \* the response to the last request that wrote

vars == <<blogs, now, creating, notified, clients, connections, sockets, comments,
          streams, requests, last>>

BlogIds == 1..(MaxBlogs + 1)      \* ids a caller may name; the last is never a row

\* ------------------------------------------------------------- responses
NoBody == << >>

\* BlogResponse (schemas.py): the fields of a row a response carries.
BlogResponse(blog) ==
    [id |-> blog.id, title |-> blog.title, content |-> blog.content,
     images |-> blog.images, status |-> blog.status,
     author_id |-> blog.author_id, created_at |-> blog.created_at,
     updated_at |-> blog.updated_at]

Response(code, detail, body) ==
    [status_code |-> code, detail |-> detail, body |-> body]

Http401 == Response(401, "Could not validate credentials", NoBody)
Http403Inactive == Response(403, "Inactive user", NoBody)
Http404 == Response(404, "Blog not found", NoBody)

Sent(op, caller, blog_id, resp) ==
    [op |-> op, caller |-> caller, blog_id |-> blog_id,
     status_code |-> resp.status_code, detail |-> resp.detail,
     body |-> resp.body]

\* ------------------------------------------------------- authentication
\* get_current_user + get_current_active_user: the error response, or
\* a response with status 200 when the caller is an active user.
AuthOk == Response(200, "", NoBody)
get_current_active_user(caller) ==
    IF caller = NoToken THEN Http401
    ELSE IF ~UserIsActive(caller) THEN Http403Inactive
    ELSE AuthOk

\* get_optional_user: the user, or NoToken (None) for anonymous callers.
get_optional_user(caller) ==
    IF caller = NoToken THEN NoToken
    ELSE IF UserIsActive(caller) THEN caller ELSE NoToken

\* Faulty variant: the role is not looked at.
require_approver_any_role(caller) == get_current_active_user(caller)

require_approver(caller) ==
    IF get_current_active_user(caller) # AuthOk
    THEN get_current_active_user(caller)
    ELSE IF UserRoleOf(caller) \notin {ADMIN, L1_APPROVER}
    THEN Response(403, "Access denied. Admin or L1 Approver role required.", NoBody)
    ELSE AuthOk

require_admin(caller) ==
    IF get_current_active_user(caller) # AuthOk
    THEN get_current_active_user(caller)
    ELSE IF UserRoleOf(caller) # ADMIN
    THEN Response(403, "Access denied. Admin role required.", NoBody)
    ELSE AuthOk


\* ------------------------------------------------------ blogs/service.py
Rows(table) == {table[i] : i \in DOMAIN table}

\* Faulty variant: soft-deleted rows are found too.
get_blog_by_id_with_deleted(blog_id) ==
    {b \in Rows(blogs) : b.id = blog_id}

\* The row with this id unless soft-deleted: the empty set is None.
get_blog_by_id(blog_id) ==
    {b \in Rows(blogs) : b.id = blog_id /\ b.deleted_at = NULL}

\* Faulty variant: every authenticated user may view.
_can_view_blog_any_user(blog, user) ==
    IF blog.status = APPROVED THEN TRUE
    ELSE IF user = NoToken THEN FALSE
    ELSE TRUE

\* user is a user id, or NoToken for None.
_can_view_blog(blog, user) ==
    IF blog.status = APPROVED THEN TRUE
    ELSE IF user = NoToken THEN FALSE
    ELSE IF user = blog.author_id THEN TRUE
    ELSE IF UserRoleOf(user) \in {ADMIN, L1_APPROVER} THEN TRUE
    ELSE FALSE

\* Faulty variant: the view policy is not applied.
get_blog_for_view_unchecked(blog_id, current_user) ==
    get_blog_by_id(blog_id)

get_blog_for_view(blog_id, current_user) ==
    {b \in get_blog_by_id(blog_id) : _can_view_blog(b, current_user)}

\* Faulty variant: the author may edit whatever the status.
_can_edit_blog_any_status(blog, user) ==
    IF UserRoleOf(user) = ADMIN THEN TRUE
    ELSE IF blog.author_id = user THEN TRUE
    ELSE FALSE

_can_edit_blog(blog, user) ==
    IF UserRoleOf(user) = ADMIN THEN TRUE
    ELSE IF blog.author_id = user /\ blog.status # APPROVED THEN TRUE
    ELSE FALSE

\* Faulty variant: an L1_APPROVER may delete too.
_can_delete_blog_approver(blog, user) ==
    IF UserRoleOf(user) \in {ADMIN, L1_APPROVER} THEN TRUE
    ELSE IF blog.author_id = user THEN TRUE
    ELSE FALSE

_can_delete_blog(blog, user) ==
    IF UserRoleOf(user) = ADMIN THEN TRUE
    ELSE IF blog.author_id = user THEN TRUE
    ELSE FALSE

\* The row create_blog inserts: the id is the next of the sequence, both
\* timestamps default to utcnow, deleted_at is NULL.
create_blog(current_user, data) ==
    [id |-> Len(blogs) + 1, title |-> data.title, content |-> data.content,
     images |-> data.images, status |-> PENDING, author_id |-> current_user,
     created_at |-> now, updated_at |-> now, deleted_at |-> NULL]

\* Faulty variant: an edited post goes back to moderation.
update_blog_resubmitting(blog, data) ==
    [blog EXCEPT
        !.title = IF data.title = Unset THEN @ ELSE data.title,
        !.content = IF data.content = Unset THEN @ ELSE data.content,
        !.images = IF data.images = Unset THEN @ ELSE data.images,
        !.status = PENDING,
        !.updated_at = now]

\* update_blog past its permission check: model_dump(exclude_unset=True)
\* assigns the fields the request carries, then updated_at.
update_blog(blog, data) ==
    [blog EXCEPT
        !.title = IF data.title = Unset THEN @ ELSE data.title,
        !.content = IF data.content = Unset THEN @ ELSE data.content,
        !.images = IF data.images = Unset THEN @ ELSE data.images,
        !.updated_at = now]

\* soft_delete_blog past its permission check; the UPDATE it flushes does
\* not set updated_at, so the column's onupdate default refreshes it.
soft_delete_blog(blog) ==
    [blog EXCEPT !.deleted_at = now, !.updated_at = now]

approve_blog(blog) ==
    [blog EXCEPT !.status = APPROVED, !.updated_at = now]

reject_blog(blog) ==
    [blog EXCEPT !.status = REJECTED, !.updated_at = now]

\* ORDER BY created_at DESC of a set of rows (created_at is distinct per row).
RECURSIVE OrderByCreatedDesc(_)
OrderByCreatedDesc(rows) ==
    IF rows = {} THEN << >>
    ELSE LET first == CHOOSE b \in rows :
                          \A c \in rows : c.created_at <= b.created_at
         IN <<first>> \o OrderByCreatedDesc(rows \ {first})

Min(a, b) == IF a <= b THEN a ELSE b

\* Faulty variant: the deleted_at filter is missing.
list_approved_blogs_with_deleted(limit, offset) ==
    LET approved == {b \in Rows(blogs) : b.status = APPROVED}
        ordered == OrderByCreatedDesc(approved)
    IN [items |-> SubSeq(ordered, offset + 1, Min(Len(ordered), offset + limit)),
        total |-> Cardinality(approved)]

\* list_approved_blogs: the page (LIMIT/OFFSET) and the total count.
list_approved_blogs(limit, offset) ==
    LET approved == {b \in Rows(blogs) :
                        b.status = APPROVED /\ b.deleted_at = NULL}
        ordered == OrderByCreatedDesc(approved)
    IN [items |-> SubSeq(ordered, offset + 1, Min(Len(ordered), offset + limit)),
        total |-> Cardinality(approved)]


\* ------------------------------------------- notifications/manager.py
\* Faulty variant: the message carries the content in place of the title.
NewPendingBlog_content(blog) ==
    [type |-> "new_pending_blog", blog_id |-> blog.id, title |-> blog.content,
     author_id |-> blog.author_id]

\* The message notify_new_pending_blog builds from the blog it is given.
NewPendingBlog(blog) ==
    [type |-> "new_pending_blog", blog_id |-> blog.id, title |-> blog.title,
     author_id |-> blog.author_id]

\* Faulty variant: every queue gets the message twice.
notify_new_pending_blog_twice(blog) ==
    [c \in DOMAIN clients |->
        clients[c] \o <<NewPendingBlog(blog), NewPendingBlog(blog)>>]

\* notify_new_pending_blog: put_nowait on the queue of every client.
notify_new_pending_blog(blog) ==
    [c \in DOMAIN clients |-> Append(clients[c], NewPendingBlog(blog))]

Connected == [type |-> "connected"]
\* The keep-alive line the generator yields on asyncio.TimeoutError.
Heartbeat == [type |-> ": heartbeat"]

\* --------------------------------------------------- blogs/chat_manager.py
Without(f, k) == [x \in DOMAIN f \ {k} |-> f[x]]

\* ChatManager.connect: setdefault(blog_id, set()).add(websocket)
chat_connect(blog_id, ws) ==
    IF blog_id \in DOMAIN connections
    THEN [connections EXCEPT ![blog_id] = @ \cup {ws}]
    ELSE connections @@ (blog_id :> {ws})

\* Faulty variant: the room stays in the registry when it is empty.
chat_disconnect_keeping_room(blog_id, ws) ==
    IF blog_id \in DOMAIN connections
    THEN [connections EXCEPT ![blog_id] = @ \ {ws}]
    ELSE connections

\* ChatManager.disconnect: discard, and pop the room once it is empty.
chat_disconnect(blog_id, ws) ==
    IF blog_id \in DOMAIN connections
    THEN IF connections[blog_id] \ {ws} = {}
         THEN Without(connections, blog_id)
         ELSE [connections EXCEPT ![blog_id] = @ \ {ws}]
    ELSE connections

\* ------------------------------------------------------------ the state
NoRequest == Sent("none", NoToken, 0, Response(0, "", NoBody))

Init ==
    /\ blogs = << >>
    /\ now = 1
    /\ creating = {}
    /\ notified = EmptyBag
    /\ clients = << >>
    /\ connections = << >>
    /\ sockets = [ws \in WebSockets |->
                     [state |-> "idle", blog_id |-> 0, user_id |-> NoToken,
                      phase |-> "receive", outgoing |-> << >>,
                      targets |-> {}, received |-> << >>]]
    /\ comments = << >>
    /\ streams = [c \in ClientIds |->
                     [state |-> "idle", user_id |-> NoToken,
                      yielded |-> << >>, timed_out |-> FALSE]]
    /\ requests = {}
    /\ last = NoRequest

\* What an endpoint does with a request: the response, and the rows it
\* writes (none when the request is refused).
Refuse(resp) == [response |-> resp, write |-> {}]
Write(code, row) ==
    [response |-> Response(code, "",
                           IF code = 204 THEN NoBody ELSE <<BlogResponse(row)>>),
     write |-> {row}]

\* A request handled in one transaction: the write, if any, is committed
\* with a fresh tick of the clock.
Handle(op, caller, blog_id, outcome) ==
    LET done == outcome
        row == CHOOSE r \in done.write : TRUE
    IN /\ now <= MaxTime
       /\ done.write # {}
       /\ blogs' = [blogs EXCEPT ![row.id] = row]
       /\ now' = now + 1
       /\ last' = Sent(op, caller, blog_id, done.response)
       /\ UNCHANGED <<creating, notified, clients, connections, sockets, streams, comments,
                   requests>>

\* ------------------------------------------------------- blogs/routes.py
\* GET /api/blogs/
list_blogs(limit, offset) ==
    LET page == list_approved_blogs(limit, offset)
    IN Response(200, "",
                [items |-> [i \in DOMAIN page.items |-> BlogResponse(page.items[i])],
                 total |-> page.total, limit |-> limit, offset |-> offset])

\* POST /api/blogs/: the authentication in front of create_blog.
create_blog_endpoint(caller, data) ==
    IF get_current_active_user(caller) # AuthOk
    THEN Refuse(get_current_active_user(caller))
    ELSE Write(201, create_blog(caller, data))

\* GET /api/blogs/{blog_id}
get_blog_endpoint(caller, blog_id) ==
    LET found == get_blog_for_view(blog_id, get_optional_user(caller))
    IN IF found = {}
       THEN Http404
       ELSE Response(200, "", <<BlogResponse(CHOOSE b \in found : TRUE)>>)

\* PUT /api/blogs/{blog_id}
update_blog_endpoint(caller, blog_id, data) ==
    LET found == get_blog_by_id(blog_id)
        blog == CHOOSE b \in found : TRUE
    IN IF get_current_active_user(caller) # AuthOk
       THEN Refuse(get_current_active_user(caller))
       ELSE IF found = {}
       THEN Refuse(Http404)
       ELSE IF ~_can_edit_blog(blog, caller)
       THEN Refuse(Response(403, "You are not allowed to update this blog", NoBody))
       ELSE Write(200, update_blog(blog, data))

\* DELETE /api/blogs/{blog_id}
delete_blog_endpoint(caller, blog_id) ==
    LET found == get_blog_by_id(blog_id)
        blog == CHOOSE b \in found : TRUE
    IN IF get_current_active_user(caller) # AuthOk
       THEN Refuse(get_current_active_user(caller))
       ELSE IF found = {}
       THEN Refuse(Http404)
       ELSE IF ~_can_delete_blog(blog, caller)
       THEN Refuse(Response(403, "You are not allowed to delete this blog", NoBody))
       ELSE Write(204, soft_delete_blog(blog))

\* Faulty variant: the already-approved test is missing.
approve_blog_endpoint_no_conflict(caller, blog_id) ==
    LET found == get_blog_by_id(blog_id)
        blog == CHOOSE b \in found : TRUE
    IN IF require_approver(caller) # AuthOk
       THEN Refuse(require_approver(caller))
       ELSE IF found = {}
       THEN Refuse(Http404)
       ELSE Write(200, approve_blog(blog))

\* POST /api/blogs/{blog_id}/approve
approve_blog_endpoint(caller, blog_id) ==
    LET found == get_blog_by_id(blog_id)
        blog == CHOOSE b \in found : TRUE
    IN IF require_approver(caller) # AuthOk
       THEN Refuse(require_approver(caller))
       ELSE IF found = {}
       THEN Refuse(Http404)
       ELSE IF blog.status = APPROVED
       THEN Refuse(Response(400, "Blog is already approved", NoBody))
       ELSE Write(200, approve_blog(blog))

\* POST /api/blogs/{blog_id}/reject
reject_blog_endpoint(caller, blog_id) ==
    LET found == get_blog_by_id(blog_id)
        blog == CHOOSE b \in found : TRUE
    IN IF require_approver(caller) # AuthOk
       THEN Refuse(require_approver(caller))
       ELSE IF found = {}
       THEN Refuse(Http404)
       ELSE IF blog.status = REJECTED
       THEN Refuse(Response(400, "Blog is already rejected", NoBody))
       ELSE Write(200, reject_blog(blog))

\* The requests that write, as steps.
\* POST /api/blogs/ up to the commit in create_blog; the 201 it will send
\* carries the row as refreshed here.
PostBlog(caller, data) ==
    LET outcome == create_blog_endpoint(caller, data)
    IN /\ Len(blogs) < MaxBlogs
       /\ now <= MaxTime
       /\ outcome.write # {}
       /\ blogs' = Append(blogs, CHOOSE row \in outcome.write : TRUE)
       /\ now' = now + 1
       /\ creating' = creating \cup outcome.write
       /\ last' = Sent("create", caller, Len(blogs) + 1, outcome.response)
       /\ UNCHANGED <<notified, clients, connections, sockets, streams, comments,
                   requests>>

\* POST /api/blogs/ from the commit on: the notification.
PostBlogNotify ==
    \E blog \in creating :
        /\ creating' = creating \ {blog}
        /\ clients' = notify_new_pending_blog(blog)
        /\ notified' = notified (+) SetToBag({NewPendingBlog(blog)})
        /\ UNCHANGED <<blogs, now, connections, sockets, streams, last, comments,
                   requests>>

PutBlog(caller, blog_id, data) ==
    Handle("edit", caller, blog_id, update_blog_endpoint(caller, blog_id, data))

DeleteBlog(caller, blog_id) ==
    Handle("delete", caller, blog_id, delete_blog_endpoint(caller, blog_id))

PostApprove(caller, blog_id) ==
    Handle("approve", caller, blog_id, approve_blog_endpoint(caller, blog_id))

PostReject(caller, blog_id) ==
    Handle("reject", caller, blog_id, reject_blog_endpoint(caller, blog_id))

\* Two requests on one post overlap: each runs in a session of its own, and
\* get_blog_by_id is awaited before anything is written.  The SELECT takes no
\* lock (no with_for_update, no version column), so the endpoint checks and
\* changes the row as it loaded it.
\* The first part of a request that will write: the row is loaded and
\* checked, its attributes are set (updated_at from the clock as read now),
\* and the flush is awaited.
Select(op, caller, blog_id, outcome) ==
    /\ Cardinality(requests) < MaxRequests
    /\ now <= MaxTime
    /\ outcome.write # {}
    /\ requests' = requests \cup
           {[op |-> op, caller |-> caller, blog_id |-> blog_id,
             loaded |-> blogs[blog_id],
             dirty |-> CHOOSE row \in outcome.write : TRUE]}
    /\ now' = now + 1
    /\ UNCHANGED <<blogs, creating, notified, clients, connections, sockets,
                   streams, last, comments>>

\* db.flush() of a loaded row: the UPDATE sets the columns whose attribute
\* was given another value than the loaded one, on the row of that id as it
\* is in the table now.
flush(loaded, dirty) ==
    [column \in DOMAIN dirty |->
        IF dirty[column] # loaded[column]
        THEN dirty[column]
        ELSE blogs[loaded.id][column]]

\* The second part: flush, refresh, the 200 with the refreshed row, and the
\* commit of get_db.
Flush(request) ==
    /\ request \in requests
    /\ blogs' = [blogs EXCEPT
                    ![request.blog_id] = flush(request.loaded, request.dirty)]
    /\ requests' = requests \ {request}
    /\ last' = Sent(request.op, request.caller, request.blog_id,
                    Response(200, "",
                             <<BlogResponse(flush(request.loaded, request.dirty))>>))
    /\ UNCHANGED <<now, creating, notified, clients, connections, sockets,
                   streams, comments>>

PutBlogSelect(caller, blog_id, data) ==
    Select("edit", caller, blog_id, update_blog_endpoint(caller, blog_id, data))

PostApproveSelect(caller, blog_id) ==
    Select("approve", caller, blog_id, approve_blog_endpoint(caller, blog_id))

PostRejectSelect(caller, blog_id) ==
    Select("reject", caller, blog_id, reject_blog_endpoint(caller, blog_id))

\* ------------------------------------------------ notifications/routes.py
\* Faulty variant: the gate of the moderation endpoints.
notifications_sse_approver(caller) == require_approver(caller)

\* GET /api/notifications/sse: the gate in front of the stream.
notifications_sse(caller) == require_admin(caller)

\* The generator of NotificationsManager.connect up to its first yield:
\* it registers a fresh queue and yields the connected message.
GetSse(caller, c) ==
    /\ notifications_sse(caller) = AuthOk
    /\ streams[c].state = "idle"
    /\ streams' = [streams EXCEPT ![c] =
                      [state |-> "open", user_id |-> caller,
                       yielded |-> <<Connected>>, timed_out |-> FALSE]]
    /\ clients' = clients @@ (c :> << >>)
    /\ UNCHANGED <<blogs, now, creating, notified, connections, sockets, last, comments,
                   requests>>

\* Faulty variant: the newest message is taken.
SseNext_newest(c) ==
    /\ c \in DOMAIN clients
    /\ clients[c] # << >>
    /\ streams' = [streams EXCEPT
                      ![c].yielded = Append(@, clients[c][Len(clients[c])]),
                      ![c].timed_out = FALSE]
    /\ clients' = [clients EXCEPT ![c] = SubSeq(@, 1, Len(@) - 1)]
    /\ UNCHANGED <<blogs, now, creating, notified, connections, sockets, last, comments,
                   requests>>

\* NotificationsManager.connect, one turn of the loop: queue.get() returns
\* the oldest message and the generator yields it.
SseNext(c) ==
    /\ c \in DOMAIN clients
    /\ clients[c] # << >>
    /\ streams' = [streams EXCEPT ![c].yielded = Append(@, Head(clients[c])),
                                  ![c].timed_out = FALSE]
    /\ clients' = [clients EXCEPT ![c] = Tail(@)]
    /\ UNCHANGED <<blogs, now, creating, notified, connections, sockets, last, comments,
                   requests>>

Heartbeats(c) ==
    Cardinality({k \in DOMAIN streams[c].yielded : streams[c].yielded[k] = Heartbeat})

\* asyncio.wait_for(queue.get(), timeout=30.0): the 30 seconds pass with
\* the queue empty and the timeout expires.
SseTimeout(c) ==
    /\ c \in DOMAIN clients
    /\ clients[c] = << >>
    /\ ~streams[c].timed_out
    /\ Heartbeats(c) < MaxHeartbeats
    /\ streams' = [streams EXCEPT ![c].timed_out = TRUE]
    /\ UNCHANGED <<blogs, now, creating, notified, clients, connections,
                   sockets, last, comments, requests>>

\* Faulty variant: the cancelled queue.get() has taken a message.
SseHeartbeat_consuming(c) ==
    /\ c \in DOMAIN clients
    /\ streams[c].timed_out
    /\ streams' = [streams EXCEPT ![c].yielded = Append(@, Heartbeat),
                                  ![c].timed_out = FALSE]
    /\ clients' = [clients EXCEPT ![c] = IF @ = << >> THEN @ ELSE Tail(@)]
    /\ UNCHANGED <<blogs, now, creating, notified, connections, sockets, last, comments,
                   requests>>

\* wait_for raises asyncio.TimeoutError and the generator yields the
\* heartbeat. A message put on the queue since the timeout expired either
\* is returned by wait_for after all (SseNext) or stays on the queue: the
\* cancelled queue.get() has not taken it.
SseHeartbeat(c) ==
    /\ c \in DOMAIN clients
    /\ streams[c].timed_out
    /\ streams' = [streams EXCEPT ![c].yielded = Append(@, Heartbeat),
                                  ![c].timed_out = FALSE]
    /\ UNCHANGED <<blogs, now, creating, notified, clients, connections,
                   sockets, last, comments, requests>>

\* Faulty variant: the queue stays registered.
SseClose_leaking(c) ==
    /\ streams[c].state = "open"
    /\ streams' = [streams EXCEPT ![c].state = "closed",
                                  ![c].timed_out = FALSE]
    /\ UNCHANGED <<blogs, now, creating, notified, clients, connections,
                   sockets, last, comments, requests>>

\* NotificationsManager.connect, the finally block: the client went away.
SseClose(c) ==
    /\ streams[c].state = "open"
    /\ streams' = [streams EXCEPT ![c].state = "closed",
                                  ![c].timed_out = FALSE]
    /\ clients' = Without(clients, c)
    /\ UNCHANGED <<blogs, now, creating, notified, connections, sockets, last, comments,
                   requests>>

\* ---------------------------------------------------- blogs/websocket.py
\* _get_user_from_token: the active user of a valid token, else None.
_get_user_from_token(token) ==
    IF token = NoToken THEN NoToken
    ELSE IF ~UserIsActive(token) THEN NoToken
    ELSE token

WS_1008_POLICY_VIOLATION == 1008
WsRefused == [accepted |-> FALSE, close_code |-> WS_1008_POLICY_VIOLATION]
WsAccepted == [accepted |-> TRUE, close_code |-> NULL]

\* WS /api/blogs/{blog_id}/ws up to chat_manager.connect: the handshake
\* is refused with a close code, or accepted.
blog_comments_websocket(caller, blog_id) ==
    IF caller = NoToken
    THEN WsRefused
    ELSE IF _get_user_from_token(caller) = NoToken
    THEN WsRefused
    ELSE IF get_blog_by_id(blog_id) = {}
    THEN WsRefused
    ELSE WsAccepted

\* Faulty variant: the broadcasts in flight iterate the room itself, so a
\* websocket that joins is sent their message too.
WsBlog_into_broadcast(ws, caller, blog_id) ==
    /\ sockets[ws].state = "idle"
    /\ IF ~blog_comments_websocket(caller, blog_id).accepted
       THEN /\ sockets' = [sockets EXCEPT ![ws].state = "refused",
                                         ![ws].blog_id = blog_id,
                                         ![ws].user_id = caller]
            /\ UNCHANGED connections
       ELSE /\ sockets' =
                   [s \in WebSockets |->
                       IF s = ws
                       THEN [sockets[s] EXCEPT !.state = "open",
                                               !.blog_id = blog_id,
                                               !.user_id = caller]
                       ELSE IF sockets[s].phase = "sending"
                               /\ sockets[s].blog_id = blog_id
                       THEN [sockets[s] EXCEPT !.targets = @ \cup {ws}]
                       ELSE sockets[s]]
            /\ connections' = chat_connect(blog_id, ws)
    /\ UNCHANGED <<blogs, now, creating, notified, clients, streams, last, comments,
                   requests>>

WsBlog(ws, caller, blog_id) ==
    /\ sockets[ws].state = "idle"
    /\ IF ~blog_comments_websocket(caller, blog_id).accepted
       THEN /\ sockets' = [sockets EXCEPT ![ws].state = "refused",
                                         ![ws].blog_id = blog_id,
                                         ![ws].user_id = caller]
            /\ UNCHANGED connections
       ELSE /\ sockets' = [sockets EXCEPT ![ws].state = "open",
                                         ![ws].blog_id = blog_id,
                                         ![ws].user_id = caller]
            /\ connections' = chat_connect(blog_id, ws)
    /\ UNCHANGED <<blogs, now, creating, notified, clients, streams, last, comments,
                   requests>>

\* The client goes away: receive_text raises WebSocketDisconnect, the
\* handler returns and get_db commits the session.
WsDisconnect(ws) ==
    /\ sockets[ws].state = "open"
    /\ sockets[ws].phase = "receive"
    /\ sockets' = [sockets EXCEPT ![ws].state = "closed"]
    /\ connections' = chat_disconnect(sockets[ws].blog_id, ws)
    /\ UNCHANGED <<blogs, now, creating, notified, clients, streams, last, comments,
                   requests>>

\* The handler's task is cancelled at one of its awaits: CancelledError is
\* no Exception, so neither except clause of the handler runs and nothing
\* calls chat_manager.disconnect; get_db neither commits nor rolls back,
\* and closing the session discards its transaction.
WsCancel(ws) ==
    /\ sockets[ws].state = "open"
    /\ sockets' = [sockets EXCEPT ![ws].state = "cancelled",
                                  ![ws].phase = "receive",
                                  ![ws].outgoing = << >>,
                                  ![ws].targets = {}]
    /\ UNCHANGED <<blogs, now, creating, notified, clients, connections, streams,
                   last, comments, requests>>

\* get_db around the handler of a websocket: what has become of the
\* transaction that holds the comments of the connection.  It is committed
\* when the handler returns with the session usable, rolled back when the
\* flush has failed (the commit raises), and discarded by the close of the
\* session when the handler was cancelled.
get_db(ws) ==
    CASE sockets[ws].state = "open" -> "active"
      [] sockets[ws].state = "closed" -> "committed"
      [] sockets[ws].state = "aborted" -> "rolled back"
      [] sockets[ws].state = "cancelled" -> "rolled back"
      [] OTHER -> "none"

\* str.strip() on a string given as the sequence of its characters.
RECURSIVE lstrip(_)
lstrip(chars) ==
    IF chars # << >> /\ Head(chars) = " " THEN lstrip(Tail(chars)) ELSE chars

RECURSIVE rstrip(_)
rstrip(chars) ==
    IF chars # << >> /\ chars[Len(chars)] = " "
    THEN rstrip(SubSeq(chars, 1, Len(chars) - 1))
    ELSE chars

strip(chars) == rstrip(lstrip(chars))

\* The text frames a client sends: valid is json.loads succeeding, and an
\* empty content stands for a missing, null or empty one (content or "").
Frames ==
    {[valid |-> TRUE, type |-> "comment", content |-> <<" ", "h", "i", " ">>],
     [valid |-> TRUE, type |-> "comment", content |-> <<" ", " ">>],
     [valid |-> TRUE, type |-> "comment", content |-> << >>],
     [valid |-> TRUE, type |-> "typing", content |-> <<"h", "i">>],
     [valid |-> FALSE, type |-> "", content |-> << >>]}

\* Faulty variant: the content is not stripped.
comment_of_unstripped(ws, frame) ==
    IF ~frame.valid THEN {}
    ELSE IF frame.type # "comment" THEN {}
    ELSE IF frame.content = << >> THEN {}
    ELSE {[id |-> Len(comments) + 1, content |-> frame.content,
           blog_id |-> sockets[ws].blog_id, user_id |-> sockets[ws].user_id,
           created_at |-> now, session |-> ws]}

\* The Comment the loop builds from a frame, or none (the empty set) when
\* the loop continues with the next frame.
comment_of(ws, frame) ==
    IF ~frame.valid THEN {}
    ELSE IF frame.type # "comment" THEN {}
    ELSE IF strip(frame.content) = << >> THEN {}
    ELSE {[id |-> Len(comments) + 1, content |-> strip(frame.content),
           blog_id |-> sockets[ws].blog_id, user_id |-> sockets[ws].user_id,
           created_at |-> now, session |-> ws]}

\* The message broadcast for a flushed and refreshed comment (username is
\* read off the same user as user_id).
outgoing(comment) ==
    [type |-> "comment", blog_id |-> comment.blog_id,
     comment_id |-> comment.id, content |-> comment.content,
     user_id |-> comment.user_id, created_at |-> comment.created_at]

\* Faulty variant: the message is built but the comment is not stored.
WsComment_unsaved(ws, frame) ==
    /\ sockets[ws].state = "open"
    /\ sockets[ws].phase = "receive"
    /\ Len(comments) < MaxComments
    /\ now <= MaxTime
    /\ comment_of(ws, frame) # {}
    /\ LET comment == CHOOSE row \in comment_of(ws, frame) : TRUE
       IN sockets' = [sockets EXCEPT ![ws].phase = "persisted",
                                     ![ws].outgoing = <<outgoing(comment)>>]
    /\ now' = now + 1
    /\ UNCHANGED <<blogs, creating, notified, clients, connections,
                   streams, last, comments, requests>>

\* receive_text, db.add, flush and refresh: the comment is in the table
\* (inside the connection's transaction) with its id; created_at is the
\* clock as read here, which has moved on at the next read.
WsComment(ws, frame) ==
    /\ sockets[ws].state = "open"
    /\ sockets[ws].phase = "receive"
    /\ Len(comments) < MaxComments
    /\ now <= MaxTime
    /\ comment_of(ws, frame) # {}
    /\ LET comment == CHOOSE row \in comment_of(ws, frame) : TRUE
       IN /\ comments' = Append(comments, comment)
          /\ sockets' = [sockets EXCEPT ![ws].phase = "persisted",
                                        ![ws].outgoing = <<outgoing(comment)>>]
    /\ now' = now + 1
    /\ UNCHANGED <<blogs, creating, notified, clients, connections,
                   streams, last, requests>>

\* The flush raises: except Exception disconnects and closes, and the
\* commit of get_db fails on the failed transaction, which is rolled back.
WsCommentFails(ws, frame) ==
    /\ sockets[ws].state = "open"
    /\ sockets[ws].phase = "receive"
    /\ comment_of(ws, frame) # {}
    /\ sockets' = [sockets EXCEPT ![ws].state = "aborted"]
    /\ connections' = chat_disconnect(sockets[ws].blog_id, ws)
    /\ UNCHANGED <<blogs, now, creating, notified, clients, streams, last,
                   comments, requests>>

\* Faulty variant: the websockets of every room.
broadcast_all_rooms(blog_id) ==
    UNION {connections[b] : b \in DOMAIN connections}

\* ChatManager.broadcast, its first line: the copy of the room.
broadcast(blog_id) ==
    IF blog_id \in DOMAIN connections THEN connections[blog_id] ELSE {}

WsBroadcast(ws) ==
    /\ sockets[ws].state = "open"
    /\ sockets[ws].phase = "persisted"
    /\ sockets' = [sockets EXCEPT
                      ![ws].targets = broadcast(sockets[ws].blog_id),
                      ![ws].phase = IF broadcast(sockets[ws].blog_id) = {}
                                    THEN "receive" ELSE "sending",
                      ![ws].outgoing = IF broadcast(sockets[ws].blog_id) = {}
                                       THEN << >> ELSE @]
    /\ UNCHANGED <<blogs, now, creating, notified, clients, connections,
                   streams, last, comments, requests>>

\* Faulty variant: the newest message is put in front of the older ones.
WsSend_newest_first(ws, to, ok) ==
    /\ sockets[ws].state = "open"
    /\ sockets[ws].phase = "sending"
    /\ to \in sockets[ws].targets
    /\ LET delivered == ok /\ sockets[to].state = "open"
           sent == IF delivered
                   THEN [sockets EXCEPT
                            ![to].received = <<sockets[ws].outgoing[1]>> \o @]
                   ELSE sockets
           done == sockets[ws].targets = {to}
       IN /\ sockets' = [sent EXCEPT
                            ![ws].targets = @ \ {to},
                            ![ws].phase = IF done THEN "receive" ELSE @,
                            ![ws].outgoing = IF done THEN << >> ELSE @]
          /\ connections' = IF delivered THEN connections
                            ELSE chat_disconnect(sockets[ws].blog_id, to)
    /\ UNCHANGED <<blogs, now, creating, notified, clients, streams, last,
                   comments, requests>>

\* Faulty variant: a websocket whose send raised stays in the room.
WsSend_keeping(ws, to, ok) ==
    /\ sockets[ws].state = "open"
    /\ sockets[ws].phase = "sending"
    /\ to \in sockets[ws].targets
    /\ LET delivered == ok /\ sockets[to].state = "open"
           sent == IF delivered
                   THEN [sockets EXCEPT
                            ![to].received = Append(@, sockets[ws].outgoing[1])]
                   ELSE sockets
           done == sockets[ws].targets = {to}
       IN sockets' = [sent EXCEPT
                         ![ws].targets = @ \ {to},
                         ![ws].phase = IF done THEN "receive" ELSE @,
                         ![ws].outgoing = IF done THEN << >> ELSE @]
    /\ UNCHANGED <<blogs, now, creating, notified, clients, connections,
                   streams, last, comments, requests>>

\* ChatManager.broadcast, one turn of its loop: send_text to one websocket
\* of the copy succeeds, or raises and the websocket is disconnected; a
\* websocket whose handler has ended cannot be sent to.
WsSend(ws, to, ok) ==
    /\ sockets[ws].state = "open"
    /\ sockets[ws].phase = "sending"
    /\ to \in sockets[ws].targets
    /\ LET delivered == ok /\ sockets[to].state = "open"
           sent == IF delivered
                   THEN [sockets EXCEPT
                            ![to].received = Append(@, sockets[ws].outgoing[1])]
                   ELSE sockets
           done == sockets[ws].targets = {to}
       IN /\ sockets' = [sent EXCEPT
                            ![ws].targets = @ \ {to},
                            ![ws].phase = IF done THEN "receive" ELSE @,
                            ![ws].outgoing = IF done THEN << >> ELSE @]
          /\ connections' = IF delivered THEN connections
                            ELSE chat_disconnect(sockets[ws].blog_id, to)
    /\ UNCHANGED <<blogs, now, creating, notified, clients, streams, last,
                   comments, requests>>

\* ----------------------------------------------------- the specifications
\* The content lifecycle: every endpoint of blogs/routes.py.
Next ==
    \/ \E caller \in Callers, data \in CreatePayloads : PostBlog(caller, data)
    \/ PostBlogNotify
    \/ \E caller \in Callers, blog_id \in BlogIds, data \in UpdatePayloads :
           PutBlog(caller, blog_id, data)
    \/ \E caller \in Callers, blog_id \in BlogIds : DeleteBlog(caller, blog_id)
    \/ \E caller \in Callers, blog_id \in BlogIds : PostApprove(caller, blog_id)
    \/ \E caller \in Callers, blog_id \in BlogIds : PostReject(caller, blog_id)

Spec == Init /\ [][Next]_vars

\* The notifications: submissions (by a user and by an admin), an edit of
\* the title that may fall between a blog's commit and its notification,
\* and the SSE subscriptions.
Submitters == {1, 3}
TitleEdits == {[title |-> "T3", content |-> Unset, images |-> Unset]}

NextNotify ==
    \/ \E caller \in Submitters, data \in CreatePayloads : PostBlog(caller, data)
    \/ PostBlogNotify
    \/ \E blog_id \in BlogIds, data \in TitleEdits : PutBlog(3, blog_id, data)
    \/ \E caller \in Callers, c \in ClientIds : GetSse(caller, c)
    \/ \E c \in ClientIds : SseNext(c)
    \/ \E c \in ClientIds : SseClose(c)

SpecNotify == Init /\ [][NextNotify]_vars

\* The fan-out: one author's submissions, the admin's subscriptions and
\* the keep-alive timer.
StreamPosts == {[title |-> "T1", content |-> "C1", images |-> "null"]}

NextStream ==
    \/ \E data \in StreamPosts : PostBlog(1, data)
    \/ PostBlogNotify
    \/ \E c \in ClientIds : GetSse(3, c)
    \/ \E c \in ClientIds : SseNext(c)
    \/ \E c \in ClientIds : SseTimeout(c)
    \/ \E c \in ClientIds : SseHeartbeat(c)
    \/ \E c \in ClientIds : SseClose(c)

SpecStream == Init /\ [][NextStream]_vars

\* The chat: the blogs a chat may be about (submitted, approved, deleted)
\* and the websockets.
ChatPosts == {[title |-> "T1", content |-> "C1", images |-> "null"]}

NextChat ==
    \/ \E data \in ChatPosts : PostBlog(1, data)
    \/ PostBlogNotify
    \/ \E blog_id \in BlogIds : PostApprove(3, blog_id)
    \/ \E blog_id \in BlogIds : DeleteBlog(3, blog_id)
    \/ \E ws \in WebSockets, caller \in Callers, blog_id \in BlogIds :
           WsBlog(ws, caller, blog_id)
    \/ \E ws \in WebSockets : WsDisconnect(ws)

SpecChat == Init /\ [][NextChat]_vars

\* The comments: one author's posts (no more posts than websockets), two
\* users' websockets on existing posts, their frames and the broadcasts.
Commenters == {1, 2}

NextComments ==
    \/ \E data \in ChatPosts :
           Len(blogs) < Cardinality(WebSockets) /\ PostBlog(1, data)
    \/ PostBlogNotify
    \/ \E ws \in WebSockets, caller \in Commenters, blog_id \in DOMAIN blogs :
           WsBlog(ws, caller, blog_id)
    \/ \E ws \in WebSockets, frame \in Frames : WsComment(ws, frame)
    \/ \E ws \in WebSockets, frame \in Frames : WsCommentFails(ws, frame)
    \/ \E ws \in WebSockets : WsBroadcast(ws)
    \/ \E ws, to \in WebSockets, ok \in BOOLEAN : WsSend(ws, to, ok)
    \/ \E ws \in WebSockets : WsDisconnect(ws)

SpecComments == Init /\ [][NextComments]_vars

\* Overlapping requests on a post: its author's edit of the title, and the
\* approve and reject of two moderators.
RaceModerators == {3, 4}

NextRace ==
    \/ \E data \in ChatPosts : PostBlog(1, data)
    \/ PostBlogNotify
    \/ \E blog_id \in DOMAIN blogs, data \in TitleEdits :
           PutBlogSelect(1, blog_id, data)
    \/ \E caller \in RaceModerators, blog_id \in DOMAIN blogs :
           PostApproveSelect(caller, blog_id)
    \/ \E caller \in RaceModerators, blog_id \in DOMAIN blogs :
           PostRejectSelect(caller, blog_id)
    \/ \E request \in requests : Flush(request)

SpecRace == Init /\ [][NextRace]_vars

\* The connections' lifetimes: posts that their author may delete, the
\* author's websockets on them, their frames, and the ways a handler ends.
SessionUsers == {1}

NextSessions ==
    \/ \E data \in ChatPosts : PostBlog(1, data)
    \/ PostBlogNotify
    \/ \E blog_id \in DOMAIN blogs : DeleteBlog(1, blog_id)
    \/ \E ws \in WebSockets, caller \in SessionUsers, blog_id \in DOMAIN blogs :
           WsBlog(ws, caller, blog_id)
    \/ \E ws \in WebSockets, frame \in Frames : WsComment(ws, frame)
    \/ \E ws \in WebSockets, frame \in Frames : WsCommentFails(ws, frame)
    \/ \E ws \in WebSockets : WsBroadcast(ws)
    \/ \E ws, to \in WebSockets, ok \in BOOLEAN : WsSend(ws, to, ok)
    \/ \E ws \in WebSockets : WsDisconnect(ws)
    \/ \E ws \in WebSockets : WsCancel(ws)

SpecSessions == Init /\ [][NextSessions]_vars

\* ------------------------------------------------------------ the claims
\* The actors: the users the authentication lets through.
Actors == {u \in UserIds : UserIsActive(u)}
Moderators == {u \in Actors : UserRoleOf(u) \in {ADMIN, L1_APPROVER}}
Exists(id) == id \in DOMAIN blogs
Deleted(id) == Exists(id) /\ blogs[id].deleted_at # NULL
Live(id) == Exists(id) /\ blogs[id].deleted_at = NULL
AbsentId == Len(blogs) + 1
Limits == {1, 100}
Offsets == {0, 1}

\* The view policy as the specification states it, for an actor or NoToken.
MayView(actor, id) ==
    /\ Live(id)
    /\ \/ blogs[id].status = APPROVED
       \/ actor # NoToken /\ actor = blogs[id].author_id
       \/ actor # NoToken /\ UserRoleOf(actor) \in {ADMIN, L1_APPROVER}

\* A step that writes the table.
Writes == blogs' # blogs

\* C1: a post's status is always PENDING, APPROVED or REJECTED, and the only
\* status changes are PENDING -> APPROVED and PENDING -> REJECTED: an
\* APPROVED or REJECTED post keeps its status under every later call.
C1_StatusLeavesOnlyPending ==
    [][\A i \in DOMAIN blogs :
          /\ blogs'[i].status \in BlogStatus
          /\ blogs'[i].status # blogs[i].status => blogs[i].status = PENDING]_vars

\* C2: view returns the post iff it is not deleted and it is APPROVED, or
\* the actor is its author, or the actor is an ADMIN or APPROVER; in every
\* other case, for an anonymous caller too, view returns NotFound.
C2_ViewIffPolicy ==
    \A actor \in Actors \cup {NoToken}, id \in BlogIds :
        IF MayView(actor, id)
        THEN get_blog_endpoint(actor, id) =
                 Response(200, "", <<BlogResponse(blogs[id])>>)
        ELSE get_blog_endpoint(actor, id) = Http404

C2_Witness ==
    \E id \in DOMAIN blogs :
        /\ blogs[id].status = PENDING /\ Live(id) /\ blogs[id].author_id = 1
        /\ get_blog_endpoint(2, id).status_code = 404
        /\ get_blog_endpoint(NoToken, id).status_code = 404
        /\ get_blog_endpoint(1, id).status_code = 200
        /\ get_blog_endpoint(3, id).status_code = 200

\* The responses of the five operations on a post id to one caller.
Responses(caller, id) ==
    [view |-> get_blog_endpoint(caller, id),
     edit |-> {update_blog_endpoint(caller, id, data).response : data \in UpdatePayloads},
     delete |-> delete_blog_endpoint(caller, id).response,
     approve |-> approve_blog_endpoint(caller, id).response,
     reject |-> reject_blog_endpoint(caller, id).response]

\* C3 as stated: for every operation and caller, a post that exists but is
\* not visible to the caller (hidden by policy or soft-deleted) is answered
\* as an absent id is.
C3_HiddenAsAbsent ==
    \A caller \in Callers, id \in DOMAIN blogs :
        ~MayView(get_optional_user(caller), id)
            => Responses(caller, id) = Responses(caller, AbsentId)

\* C3 amended: a soft-deleted post is answered as an absent id by every
\* operation, and a post hidden by policy is answered as an absent id by
\* view, approve and reject; edit and delete of a post hidden by policy
\* answer an authenticated actor Forbidden, not NotFound.
C3_DeletedAsAbsentHiddenForbidden ==
    \A caller \in Callers, id \in DOMAIN blogs :
        LET here == Responses(caller, id)
            absent == Responses(caller, AbsentId)
        IN /\ Deleted(id) => here = absent
           /\ Live(id) /\ ~MayView(get_optional_user(caller), id) =>
                 /\ here.view = absent.view /\ here.view = Http404
                 /\ here.approve = absent.approve
                 /\ here.reject = absent.reject
                 /\ caller \in Actors =>
                       /\ \A r \in here.edit : r.status_code = 403
                       /\ here.delete.status_code = 403
                       /\ \A r \in absent.edit : r.status_code = 404
                       /\ absent.delete.status_code = 404

C3_Witness ==
    \E id \in DOMAIN blogs :
        /\ Live(id) /\ ~MayView(2, id)
        /\ delete_blog_endpoint(2, id).response.status_code = 403
        /\ delete_blog_endpoint(2, AbsentId).response.status_code = 404
        /\ \E other \in DOMAIN blogs : Deleted(other)

\* C4 as stated: on a soft-deleted post view, edit, delete, approve and
\* reject return NotFound to every actor, the listing omits it, the comment
\* channel refuses it, and the deletion timestamp is never cleared.
C4_DeletedNotFoundForAll ==
    \A actor \in Actors, id \in DOMAIN blogs :
        Deleted(id) =>
            /\ get_blog_endpoint(actor, id) = Http404
            /\ \A data \in UpdatePayloads :
                   update_blog_endpoint(actor, id, data) = Refuse(Http404)
            /\ delete_blog_endpoint(actor, id) = Refuse(Http404)
            /\ approve_blog_endpoint(actor, id) = Refuse(Http404)
            /\ reject_blog_endpoint(actor, id) = Refuse(Http404)
            /\ blog_comments_websocket(actor, id) = WsRefused
            /\ \A k \in DOMAIN list_blogs(100, 0).body.items :
                   list_blogs(100, 0).body.items[k].id # id

C4_DeletedExcluded ==
    \A id \in DOMAIN blogs :
        Deleted(id) =>
            /\ \A actor \in Actors :
                  /\ get_blog_endpoint(actor, id) = Http404
                  /\ \A data \in UpdatePayloads :
                         update_blog_endpoint(actor, id, data) = Refuse(Http404)
                  /\ delete_blog_endpoint(actor, id) = Refuse(Http404)
                  /\ approve_blog_endpoint(actor, id) =
                         IF actor \in Moderators
                         THEN Refuse(Http404) ELSE Refuse(require_approver(actor))
                  /\ reject_blog_endpoint(actor, id) =
                         IF actor \in Moderators
                         THEN Refuse(Http404) ELSE Refuse(require_approver(actor))
                  /\ require_approver(actor).status_code \in {200, 403}
                  /\ blog_comments_websocket(actor, id) = WsRefused
            /\ get_blog_endpoint(NoToken, id) = Http404
            /\ \A limit \in Limits, offset \in Offsets :
                   LET page == list_blogs(limit, offset).body.items
                   IN \A k \in DOMAIN page : page[k].id # id

C4_DeletionKept ==
    \A id \in DOMAIN blogs : Deleted(id) => blogs'[id] = blogs[id]

\* C4 amended: on a soft-deleted post view, edit and delete return NotFound
\* to every actor, approve and reject return NotFound to every ADMIN and
\* APPROVER and Forbidden to a USER, the listing omits it, the comment
\* channel refuses it, and no step changes the row again, so the deletion
\* timestamp is never cleared.
C4_DeletedStaysExcluded == []C4_DeletedExcluded /\ [][C4_DeletionKept]_vars

C4_Witness ==
    \E id \in DOMAIN blogs :
        /\ Deleted(id) /\ blogs[id].status = APPROVED
        /\ get_blog_endpoint(blogs[id].author_id, id) = Http404
        /\ approve_blog_endpoint(3, id).response = Http404
        /\ approve_blog_endpoint(1, id).response.status_code = 403

C5_ConflictWritesNothing ==
    \A actor \in Moderators, id \in DOMAIN blogs :
        Live(id) =>
            /\ blogs[id].status = APPROVED =>
                   /\ approve_blog_endpoint(actor, id).response.status_code = 400
                   /\ approve_blog_endpoint(actor, id).write = {}
            /\ blogs[id].status = REJECTED =>
                   /\ reject_blog_endpoint(actor, id).response.status_code = 400
                   /\ reject_blog_endpoint(actor, id).write = {}

C5_TargetStatusReached ==
    /\ Writes /\ last'.op = "approve" =>
           /\ blogs[last'.blog_id].status # APPROVED
           /\ blogs'[last'.blog_id].status = APPROVED
    /\ Writes /\ last'.op = "reject" =>
           /\ blogs[last'.blog_id].status # REJECTED
           /\ blogs'[last'.blog_id].status = REJECTED

\* C5: approve of a post that is already APPROVED, and reject of one that is
\* already REJECTED, return Conflict and write nothing; an approve that
\* succeeds leaves the post APPROVED, so the next approve is a Conflict.
C5_RepeatIsConflict == []C5_ConflictWritesNothing /\ [][C5_TargetStatusReached]_vars

C5_Witness ==
    /\ last.op = "approve" /\ last.status_code = 200
    /\ blogs[last.blog_id].status = APPROVED
    /\ approve_blog_endpoint(last.caller, last.blog_id).response.status_code = 400
    /\ approve_blog_endpoint(last.caller, last.blog_id).write = {}

C6_UserRefused ==
    \A actor \in Actors \ Moderators, id \in BlogIds :
        /\ approve_blog_endpoint(actor, id).response.status_code = 403
        /\ approve_blog_endpoint(actor, id).write = {}
        /\ reject_blog_endpoint(actor, id).response.status_code = 403
        /\ reject_blog_endpoint(actor, id).write = {}

C6_StatusChangedByModerator ==
    \A id \in DOMAIN blogs :
        blogs'[id].status # blogs[id].status =>
            /\ last'.op \in {"approve", "reject"}
            /\ last'.blog_id = id
            /\ last'.caller \in Moderators

\* C6: approve and reject by a USER, the author included, return Forbidden
\* and write nothing, and every step that changes the status of an existing
\* post is an approve or a reject of that post by an ADMIN or an APPROVER.
C6_OnlyModeratorsChangeStatus == []C6_UserRefused /\ [][C6_StatusChangedByModerator]_vars

C6_Witness ==
    /\ last.op = "reject" /\ last.caller = 4
    /\ blogs[last.blog_id].status = REJECTED
    /\ blogs[last.blog_id].author_id = 1
    /\ approve_blog_endpoint(1, last.blog_id).response.status_code = 403
    /\ \E id \in DOMAIN blogs : id # last.blog_id /\ blogs[id].status = PENDING

\* The edit policy and the delete policy as the specification states them.
MayEdit(actor, id) ==
    \/ UserRoleOf(actor) = ADMIN
    \/ actor = blogs[id].author_id /\ blogs[id].status # APPROVED

MayDelete(actor, id) ==
    \/ UserRoleOf(actor) = ADMIN
    \/ actor = blogs[id].author_id

C7_EditOutcome ==
    \A actor \in Actors, id \in DOMAIN blogs, data \in UpdatePayloads :
        LET outcome == update_blog_endpoint(actor, id, data)
        IN Live(id) =>
               IF MayEdit(actor, id)
               THEN /\ outcome.response.status_code = 200
                    /\ \E row \in outcome.write :
                          /\ outcome.write = {row}
                          /\ row.id = id
                          /\ row.status = blogs[id].status
                          /\ row.author_id = blogs[id].author_id
                          /\ row.deleted_at = NULL
                          /\ data.title # Unset => row.title = data.title
                          /\ data.title = Unset => row.title = blogs[id].title
                          /\ outcome.response.body = <<BlogResponse(row)>>
               ELSE /\ outcome.response.status_code = 403
                    /\ outcome.write = {}

C7_EditedByPolicy ==
    Writes /\ last'.op = "edit" =>
        /\ last'.caller \in Actors
        /\ Live(last'.blog_id)
        /\ MayEdit(last'.caller, last'.blog_id)

\* C7: edit of an existing, not deleted post succeeds iff the actor is an
\* ADMIN, or is the author and the post is not APPROVED; every other actor
\* gets Forbidden and the post is left unchanged.
C7_EditIffPolicy == []C7_EditOutcome /\ [][C7_EditedByPolicy]_vars

C7_Witness ==
    \E id \in DOMAIN blogs :
        /\ Live(id) /\ blogs[id].status = APPROVED /\ blogs[id].author_id = 1
        /\ \A data \in UpdatePayloads :
              /\ update_blog_endpoint(1, id, data).response.status_code = 403
              /\ update_blog_endpoint(4, id, data).response.status_code = 403
              /\ update_blog_endpoint(3, id, data).response.status_code = 200
        /\ blogs[id].title = "T3"

C8_DeleteOutcome ==
    \A actor \in Actors, id \in DOMAIN blogs :
        LET outcome == delete_blog_endpoint(actor, id)
        IN /\ Live(id) =>
                 IF MayDelete(actor, id)
                 THEN /\ outcome.response.status_code = 204
                      /\ \E row \in outcome.write :
                            /\ outcome.write = {row}
                            /\ row.deleted_at # NULL
                            /\ [row EXCEPT !.deleted_at = NULL, !.updated_at = 0]
                                 = [blogs[id] EXCEPT !.updated_at = 0]
                 ELSE /\ outcome.response.status_code = 403
                      /\ outcome.write = {}
           /\ Deleted(id) => outcome = Refuse(Http404)

C8_RowsKept ==
    /\ Len(blogs') >= Len(blogs)
    /\ \A id \in DOMAIN blogs :
          /\ blogs'[id].id = id
          /\ blogs'[id].deleted_at # blogs[id].deleted_at =>
                /\ last'.op = "delete" /\ last'.blog_id = id
                /\ last'.status_code = 204
                /\ blogs[id].deleted_at = NULL
                /\ blogs'[id].deleted_at # NULL
                /\ last'.caller \in Actors
                /\ MayDelete(last'.caller, id)

\* C8: delete of an existing, not deleted post sets its deletion timestamp
\* iff the actor is an ADMIN or the author, whatever the status, and
\* otherwise is Forbidden and writes nothing; no step removes a row, and a
\* delete of an already deleted post returns NotFound.
C8_SoftDeleteIffPolicy == []C8_DeleteOutcome /\ [][C8_RowsKept]_vars

C8_Witness ==
    /\ last.op = "delete" /\ last.status_code = 204
    /\ last.caller = blogs[last.blog_id].author_id
    /\ UserRoleOf(last.caller) = USER
    /\ blogs[last.blog_id].status = APPROVED
    /\ blogs[last.blog_id].deleted_at # NULL
    /\ delete_blog_endpoint(last.caller, last.blog_id).response = Http404

Public == {id \in DOMAIN blogs : blogs[id].status = APPROVED /\ blogs[id].deleted_at = NULL}

\* C9: the public listing holds exactly the posts that are APPROVED and not
\* deleted: every item of every page is one of them, the total counts them,
\* and the page that starts at the first post holds each of them once.
C9_ListingIsPublic ==
    /\ \A limit \in Limits, offset \in Offsets :
          LET page == list_blogs(limit, offset)
          IN /\ page.status_code = 200
             /\ page.body.total = Cardinality(Public)
             /\ Len(page.body.items) <= limit
             /\ \A k \in DOMAIN page.body.items :
                   /\ page.body.items[k].id \in Public
                   /\ page.body.items[k] = BlogResponse(blogs[page.body.items[k].id])
    /\ LET items == list_blogs(100, 0).body.items
       IN /\ {items[k].id : k \in DOMAIN items} = Public
          /\ Len(items) = Cardinality(Public)

C9_Witness ==
    /\ Cardinality(Public) = 1
    /\ \E id \in DOMAIN blogs : id \notin Public /\ blogs[id].status = PENDING
    /\ Len(list_blogs(100, 0).body.items) = 1
    /\ last.op = "approve"

\* The lifecycle events published for a post id, and the posts whose
\* submit has committed and not yet published.
EventsOf(id) == {e \in BagToSet(notified) : e.blog_id = id}
InFlight(id) == \E blog \in creating : blog.id = id

C10_SubmitCreatesPending ==
    Len(blogs') # Len(blogs) =>
        LET blog == blogs'[Len(blogs')]
        IN /\ Len(blogs') = Len(blogs) + 1
           /\ blog.id = Len(blogs')
           /\ blog.status = PENDING
           /\ blog.deleted_at = NULL
           /\ last'.op = "create" /\ last'.status_code = 201
           /\ last'.caller \in Actors
           /\ blog.author_id = last'.caller
           /\ last'.body = <<BlogResponse(blog)>>
           /\ creating' = creating \cup {blog}
           /\ notified' = notified

C10_PublishAfterCommit ==
    notified' # notified =>
        \E blog \in creating :
            /\ blog.id \in DOMAIN blogs
            /\ blogs[blog.id].author_id = blog.author_id
            /\ blogs[blog.id].created_at = blog.created_at
            /\ creating' = creating \ {blog}
            /\ blogs' = blogs
            /\ notified' = notified (+) SetToBag({[type |-> "new_pending_blog",
                                                    blog_id |-> blog.id,
                                                    title |-> blog.title,
                                                    author_id |-> blog.author_id]})

C10_OneEventPerPost ==
    /\ \A id \in DOMAIN blogs :
          IF InFlight(id)
          THEN EventsOf(id) = {}
          ELSE \E e \in EventsOf(id) :
                  /\ EventsOf(id) = {e}
                  /\ CopiesIn(e, notified) = 1
                  /\ e.author_id = blogs[id].author_id
    /\ \A e \in BagToSet(notified) : e.blog_id \in DOMAIN blogs
    /\ \A blog \in creating : blog.id \in DOMAIN blogs
    /\ \A c \in ClientIds :
          \A k \in DOMAIN streams[c].yielded :
              LET e == streams[c].yielded[k]
              IN e.type = "new_pending_blog" =>
                     /\ BagIn(e, notified)
                     /\ e.blog_id \in DOMAIN blogs
                     /\ Live(e.blog_id) =>
                            get_blog_endpoint(3, e.blog_id).status_code = 200

\* C10: every submit that succeeds creates one post, PENDING and authored by
\* the submitting actor, and is followed by exactly one publish of an event
\* carrying that post's id, title and author id; the publish happens after
\* the post is committed, and no event names a post that was not created.
C10_SubmitPublishesOnce ==
    /\ []C10_OneEventPerPost
    /\ [][C10_SubmitCreatesPending /\ C10_PublishAfterCommit]_vars

C10_Witness ==
    \E c \in ClientIds, id \in DOMAIN blogs :
        /\ ~InFlight(id)
        /\ CopiesIn(NewPendingBlog(blogs[id]), notified) = 1
        /\ blogs[id].status = PENDING /\ blogs[id].author_id = 1
        /\ \E k \in DOMAIN streams[c].yielded :
               streams[c].yielded[k] = NewPendingBlog(blogs[id])

\* The lifecycle events among the messages of a sequence, in order.
IsEvent(m) == m.type = "new_pending_blog"
Events(messages) == SelectSeq(messages, IsEvent)
Mailbox(c) == IF c \in DOMAIN clients THEN clients[c] ELSE << >>
\* What a subscriber was handed or will be handed next.
Received(c) == Events(streams[c].yielded) \o Mailbox(c)
Occurrences(m, messages) ==
    Cardinality({k \in DOMAIN messages : messages[k] = m})
Published == \E e \in BagToSet(notified') : CopiesIn(e, notified') > CopiesIn(e, notified)
Registered(c) == c \in DOMAIN clients

C11_OneCopyPerMailbox ==
    /\ Published =>
          \E e \in BagToSet(notified') :
              /\ notified' = notified (+) SetToBag({e})
              /\ DOMAIN clients' = DOMAIN clients
              /\ \A c \in DOMAIN clients : clients'[c] = Append(clients[c], e)
              /\ streams' = streams
    /\ \A c \in ClientIds :
          /\ ~Registered(c) /\ Registered(c)' =>
                 /\ clients'[c] = << >>
                 /\ Events(streams'[c].yielded) = << >>
                 /\ notified' = notified
          /\ Registered(c) /\ Mailbox(c)' # Mailbox(c) /\ ~Published =>
                 \/ ~Registered(c)'
                 \/ Mailbox(c)' = Tail(Mailbox(c))
          /\ ~Registered(c) /\ ~Registered(c)' => streams'[c] = streams[c]

C11_NoDuplicate ==
    \A c \in ClientIds :
        \A k \in DOMAIN Received(c) :
            /\ Occurrences(Received(c)[k], Received(c)) = 1
            /\ CopiesIn(Received(c)[k], notified) = 1

\* C11: a publish appends one copy of the event to every mailbox that is
\* registered when it runs and touches nothing else, with no mailbox
\* registered it changes nothing; a mailbox starts empty, so it never holds
\* an event published before it was registered, and no mailbox holds or has
\* yielded an event twice.
C11_PublishReachesRegistered == []C11_NoDuplicate /\ [][C11_OneCopyPerMailbox]_vars

C11_Witness ==
    \E c, d \in ClientIds, e \in BagToSet(notified) :
        /\ c # d
        /\ e \in {Received(c)[k] : k \in DOMAIN Received(c)}
        /\ streams[d].state = "open"
        /\ e \notin {Received(d)[k] : k \in DOMAIN Received(d)}
        /\ BagCardinality(notified) = 2

C12_AppendOnly ==
    \A c \in ClientIds :
        /\ Registered(c) /\ Registered(c)' =>
              \/ ~Published /\ Received(c)' = Received(c)
              \/ /\ Published
                 /\ \E e \in BagToSet(notified') :
                        /\ notified' = notified (+) SetToBag({e})
                        /\ Received(c)' = Append(Received(c), e)
        /\ Events(streams'[c].yielded) # Events(streams[c].yielded) =>
              /\ Registered(c)
              /\ Mailbox(c) # << >>
              /\ Events(streams'[c].yielded) =
                     Append(Events(streams[c].yielded), Head(Mailbox(c)))

\* C12: for every subscriber the events handed out followed by the events
\* still queued are the events published while it was registered, in
\* publish order: a publish appends at the end, a yield moves the oldest
\* queued event to the output, and a heartbeat changes neither.
C12_PublishOrderKept == [][C12_AppendOnly]_vars

C12_Witness ==
    \E c \in ClientIds :
        /\ Len(Events(streams[c].yielded)) = 2
        /\ Heartbeat \in {streams[c].yielded[k] : k \in DOMAIN streams[c].yielded}
        /\ Events(streams[c].yielded)[1].blog_id = 2
        /\ Events(streams[c].yielded)[2].blog_id = 1

C13_ConnectedFirst ==
    \A c \in ClientIds :
        /\ streams[c].state = "idle" => streams[c].yielded = << >>
        /\ streams[c].state # "idle" =>
              /\ streams[c].yielded[1] = Connected
              /\ Occurrences(Connected, streams[c].yielded) = 1
        /\ streams[c].timed_out => streams[c].state = "open"

C13_HeartbeatAfterSilence ==
    \A c \in ClientIds :
        /\ ~streams[c].timed_out /\ streams'[c].timed_out =>
              /\ Registered(c) /\ clients[c] = << >>
              /\ streams'[c].yielded = streams[c].yielded
        /\ Occurrences(Heartbeat, streams'[c].yielded)
               # Occurrences(Heartbeat, streams[c].yielded) =>
              /\ streams[c].timed_out
              /\ streams'[c].yielded = Append(streams[c].yielded, Heartbeat)
              /\ clients' = clients
        /\ streams[c].timed_out /\ streams'[c].yielded # streams[c].yielded =>
              \/ /\ streams'[c].yielded = Append(streams[c].yielded, Heartbeat)
                 /\ clients' = clients
              \/ /\ clients[c] # << >>
                 /\ streams'[c].yielded = Append(streams[c].yielded, Head(clients[c]))
                 /\ clients'[c] = Tail(clients[c])

\* C13: a stream yields the connected message first and once; a heartbeat
\* is yielded only after the timeout expired on an empty queue, and it
\* leaves every queue as it is; an event that arrives once the timeout has
\* expired is yielded instead of the heartbeat or stays first in the queue.
C13_HeartbeatKeepsQueue == []C13_ConnectedFirst /\ [][C13_HeartbeatAfterSilence]_vars

C13_Witness ==
    \E c \in ClientIds :
        /\ streams[c].yielded = <<Connected, Heartbeat>>
        /\ ~streams[c].timed_out
        /\ Len(Mailbox(c)) = 1
        /\ \E d \in ClientIds \ {c} :
               /\ streams[d].timed_out
               /\ streams[d].yielded = <<Connected>>
               /\ Mailbox(d) = Mailbox(c)

C14_RegistryIsOpenStreams ==
    /\ DOMAIN clients = {c \in ClientIds : streams[c].state = "open"}
    /\ Cardinality(DOMAIN clients) =
           Cardinality({c \in ClientIds : streams[c].state # "idle"})
             - Cardinality({c \in ClientIds : streams[c].state = "closed"})

C14_OwnMailboxRemoved ==
    \A c \in ClientIds :
        /\ streams[c].state = "open" /\ streams'[c].state # "open" =>
              /\ streams'[c].state = "closed"
              /\ clients' = [d \in DOMAIN clients \ {c} |-> clients[d]]
              /\ \A d \in ClientIds \ {c} : streams'[d] = streams[d]
        /\ streams[c].state = "closed" =>
              /\ streams'[c] = streams[c]
              /\ ~Registered(c)'

\* C14: the registered mailboxes are exactly those of the streams that
\* have started and not ended; the end of a stream removes its mailbox and
\* leaves the other mailboxes and streams as they are, and an ended stream
\* is never registered or handed anything again.
C14_CleanupOnEnd == []C14_RegistryIsOpenStreams /\ [][C14_OwnMailboxRemoved]_vars

C14_Witness ==
    \E c, d \in ClientIds :
        /\ streams[c].state = "closed" /\ streams[d].state = "open"
        /\ Events(streams[c].yielded) = << >>
        /\ Len(clients[d]) = 2
        /\ DOMAIN clients = {d}

\* C15 as stated: the stream admits exactly the ADMIN and APPROVER actors.
C15_ModeratorsAdmitted ==
    /\ \A c \in ClientIds :
          streams[c].state # "idle" => streams[c].user_id \in Moderators
    /\ \A caller \in Callers :
          notifications_sse(caller) = AuthOk <=> caller \in Moderators

C15_Gate ==
    /\ \A caller \in Callers :
          /\ notifications_sse(caller) = AuthOk <=>
                 caller \in Actors /\ UserRoleOf(caller) = ADMIN
          /\ caller \in Actors /\ UserRoleOf(caller) \in {USER, L1_APPROVER} =>
                 notifications_sse(caller).status_code = 403
          /\ caller = NoToken => notifications_sse(caller).status_code = 401
    /\ \A c \in ClientIds :
          streams[c].state # "idle" =>
              /\ streams[c].user_id \in Actors
              /\ UserRoleOf(streams[c].user_id) = ADMIN

C15_AdmittedRegistersOne ==
    \A c \in ClientIds :
        ~Registered(c) /\ Registered(c)' =>
            /\ streams[c].state = "idle"
            /\ UserRoleOf(streams'[c].user_id) = ADMIN
            /\ DOMAIN clients' = DOMAIN clients \cup {c}

\* C15 amended: the stream admits exactly the active actors of role ADMIN;
\* a USER and an APPROVER are answered Forbidden and an anonymous caller
\* Unauthorized before the generator runs, so they register no mailbox,
\* and an admitted ADMIN registers one.
C15_AdminOnly == []C15_Gate /\ [][C15_AdmittedRegistersOne]_vars

C15_Witness ==
    \E c \in ClientIds :
        /\ streams[c].state = "open" /\ streams[c].user_id = 3
        /\ DOMAIN clients = {c}
        /\ notifications_sse(4).detail = "Access denied. Admin role required."

\* The room of a post, and the room a websocket is in, if any.
Room(blog_id) ==
    IF blog_id \in DOMAIN connections THEN connections[blog_id] ELSE {}
InRoom(ws) == \E b \in DOMAIN connections : ws \in connections[b]
Joins(ws) == sockets[ws].state = "idle" /\ sockets'[ws].state = "open"

\* C16: a websocket joins the room of a post only if its token belongs to
\* an active actor and the post exists, is not deleted and is visible to
\* that actor under the view policy; a refused websocket is in no room.
C16_JoinOnlyIfVisible ==
    [][\A ws \in WebSockets :
          /\ Joins(ws) =>
                /\ sockets'[ws].user_id \in Actors
                /\ MayView(sockets'[ws].user_id, sockets'[ws].blog_id)
          /\ sockets'[ws].state = "refused" => ~InRoom(ws)']_vars

\* t is s without the blanks around it, and is not empty.
IsTrimOf(t, s) ==
    /\ t # << >> /\ t[1] # " " /\ t[Len(t)] # " "
    /\ \E i \in 0..Len(s), j \in 0..Len(s) :
          /\ i <= j
          /\ SubSeq(s, i + 1, j) = t
          /\ \A k \in 1..i : s[k] = " "
          /\ \A k \in (j + 1)..Len(s) : s[k] = " "

FramesOf(comment_id, ws) ==
    {k \in DOMAIN sockets[ws].received :
        sockets[ws].received[k].comment_id = comment_id}

C17_OneCommentPerFrame ==
    comments' # comments =>
        \E ws \in WebSockets, frame \in Frames :
            LET comment == comments'[Len(comments')]
            IN /\ comments' = Append(comments, comment)
               /\ sockets[ws].state = "open" /\ sockets[ws].phase = "receive"
               /\ frame.valid /\ frame.type = "comment"
               /\ IsTrimOf(comment.content, frame.content)
               /\ comment.id = Len(comments')
               /\ comment.blog_id = sockets[ws].blog_id
               /\ comment.user_id = sockets[ws].user_id
               /\ sockets'[ws].phase = "persisted"
               /\ sockets'[ws].outgoing[1].content = comment.content
               /\ sockets'[ws].outgoing[1].comment_id = comment.id
               /\ \A other \in WebSockets \ {ws} : sockets'[other] = sockets[other]

C17_SentToTheRoom ==
    \A ws \in WebSockets :
        /\ sockets[ws].phase = "persisted" /\ sockets'[ws].phase # "persisted" =>
              /\ sockets'[ws].targets = Room(sockets[ws].blog_id)
              /\ sockets'[ws].phase = "receive" <=> Room(sockets[ws].blog_id) = {}
              /\ \A to \in WebSockets : sockets'[to].received = sockets[to].received
        /\ sockets[ws].phase = "sending" =>
              /\ sockets'[ws].targets \subseteq sockets[ws].targets
              /\ Cardinality(sockets[ws].targets \ sockets'[ws].targets) <= 1
              /\ sockets'[ws].phase = "receive" <=> sockets'[ws].targets = {}
              /\ \A to \in sockets[ws].targets \ sockets'[ws].targets :
                    \/ sockets'[to].received =
                           Append(sockets[to].received, sockets[ws].outgoing[1])
                    \/ /\ sockets'[to].received = sockets[to].received
                       /\ to \notin Room(sockets[ws].blog_id)'
        /\ sockets'[ws].received # sockets[ws].received =>
              \E from \in WebSockets :
                  /\ sockets[from].phase = "sending"
                  /\ ws \in sockets[from].targets
                  /\ ws \notin sockets'[from].targets
                  /\ sockets[from].blog_id = sockets[ws].blog_id
                  /\ sockets'[ws].received =
                         Append(sockets[ws].received, sockets[from].outgoing[1])

C17_OneFramePerComment ==
    \A ws \in WebSockets :
        /\ \A k \in DOMAIN sockets[ws].received :
              /\ sockets[ws].received[k].blog_id = sockets[ws].blog_id
              /\ Cardinality(FramesOf(sockets[ws].received[k].comment_id, ws)) = 1
        /\ sockets[ws].phase = "sending" =>
              \A to \in sockets[ws].targets :
                  FramesOf(sockets[ws].outgoing[1].comment_id, to) = {}

\* C17: a comment frame with content left after trimming inserts one
\* Comment with the websocket's post and user and the trimmed text; its
\* broadcast takes the websockets in the post's room when it starts and
\* sends the frame to each of them once, which receives it unless the send
\* fails; no websocket gets a frame of another post or a frame twice.
C17_CommentStoredAndBroadcast ==
    /\ []C17_OneFramePerComment
    /\ [][C17_OneCommentPerFrame /\ C17_SentToTheRoom]_vars

C17_Witness ==
    \E ws, other \in WebSockets :
        /\ ws # other
        /\ Len(comments) = 1
        /\ comments[1].content = <<"h", "i">>
        /\ comments[1].session = ws
        /\ comments[1].user_id = sockets[ws].user_id
        /\ sockets[other].user_id # sockets[ws].user_id
        /\ Room(comments[1].blog_id) = {ws, other}
        /\ sockets[ws].phase = "receive"
        /\ sockets[ws].received = <<outgoing(comments[1])>>
        /\ sockets[other].received = <<outgoing(comments[1])>>

\* The message of a stored comment, as the specification words it.
CarriesStored(frame) ==
    /\ frame.comment_id \in DOMAIN comments
    /\ frame.type = "comment"
    /\ frame.comment_id = comments[frame.comment_id].id
    /\ frame.created_at = comments[frame.comment_id].created_at
    /\ frame.content = comments[frame.comment_id].content
    /\ frame.user_id = comments[frame.comment_id].user_id
    /\ frame.blog_id = comments[frame.comment_id].blog_id

C18_FramesOfStoredComments ==
    \A ws \in WebSockets :
        /\ \A k \in DOMAIN sockets[ws].received :
               CarriesStored(sockets[ws].received[k])
        /\ \A k \in DOMAIN sockets[ws].outgoing :
               CarriesStored(sockets[ws].outgoing[k])
        /\ sockets[ws].phase # "receive" <=> sockets[ws].outgoing # << >>
        /\ sockets[ws].state # "open" =>
               /\ sockets[ws].phase = "receive"
               /\ sockets[ws].targets = {}

C18_FailedInsertSendsNothing ==
    \A ws \in WebSockets :
        /\ sockets'[ws].state = "aborted" /\ sockets[ws].state # "aborted" =>
              /\ comments' = comments
              /\ sockets'[ws].outgoing = << >>
              /\ \A to \in WebSockets : sockets'[to].received = sockets[to].received
              /\ ~InRoom(ws)'
        /\ sockets[ws].phase = "receive" /\ sockets'[ws].phase # "receive" =>
              /\ Len(comments') = Len(comments) + 1
              /\ sockets'[ws].outgoing = <<outgoing(comments'[Len(comments')])>>
              /\ comments'[Len(comments')].session = ws

\* C18: a message leaves for broadcast only in the step that inserts its
\* comment, and every message waiting to be sent or received by a websocket
\* carries the id, timestamp, content and author of a comment already in
\* the table; when the insert fails the handler ends with no message built
\* and no websocket receives anything.
C18_StoredBeforeBroadcast ==
    []C18_FramesOfStoredComments /\ [][C18_FailedInsertSendsNothing]_vars

C18_Witness ==
    \E ws, other \in WebSockets :
        /\ ws # other
        /\ sockets[ws].state = "aborted"
        /\ Len(comments) = 1 /\ comments[1].session = other
        /\ sockets[ws].received = <<outgoing(comments[1])>>
        /\ sockets[other].phase = "sending"
        /\ sockets[other].targets = {other}

Ignored(frame) ==
    \/ ~frame.valid
    \/ frame.type # "comment"
    \/ \A k \in DOMAIN frame.content : frame.content[k] = " "

SendFails(ws, to) ==
    /\ sockets[ws].phase = "sending"
    /\ to \in sockets[ws].targets
    /\ to \notin sockets'[ws].targets
    /\ sockets'[to].received = sockets[to].received

C20_FailureContained ==
    \A ws, to \in WebSockets :
        SendFails(ws, to) =>
            /\ sockets'[ws].state = "open"
            /\ sockets'[ws].targets = sockets[ws].targets \ {to}
            /\ sockets'[ws].targets # {} =>
                  /\ sockets'[ws].phase = "sending"
                  /\ sockets'[ws].outgoing = sockets[ws].outgoing
            /\ sockets'[ws].targets = {} => sockets'[ws].phase = "receive"
            /\ \A b \in BlogIds : Room(b)' = Room(b) \ {to}
            /\ \A other \in WebSockets \ {ws} : sockets'[other] = sockets[other]

C20_NoWayBack ==
    \A ws \in WebSockets :
        /\ sockets[ws].state # "idle" /\ ~InRoom(ws) => ~InRoom(ws)'
        /\ sockets[ws].phase = "persisted" /\ sockets'[ws].phase # "persisted" =>
              sockets'[ws].targets = Room(sockets[ws].blog_id)

\* C20: a send that fails during a broadcast removes the websocket it was
\* for from the room and nothing else: the sender stays open and goes on
\* with the websockets still to be sent to, no other websocket or room
\* changes, and as a websocket never returns to a room and a broadcast
\* takes the room as it is when it starts, no later broadcast sends to it.
C20_SendFailureIsolated == [][C20_FailureContained /\ C20_NoWayBack]_vars

C20_Witness ==
    \E ws, lost \in WebSockets :
        /\ ws # lost
        /\ sockets[lost].state = "open" /\ ~InRoom(lost)
        /\ sockets[lost].blog_id = sockets[ws].blog_id
        /\ sockets[lost].received = << >>
        /\ Len(comments) = 2
        /\ comments[1].session = lost /\ comments[2].session = ws
        /\ sockets[ws].received = <<outgoing(comments[1]), outgoing(comments[2])>>
        /\ sockets[ws].phase = "receive"

Leaves(ws) == InRoom(ws) /\ ~InRoom(ws)'
Sending(ws) == sockets[ws].state = "open" /\ sockets[ws].phase = "sending"

C21_SnapshotOnly ==
    \A ws \in WebSockets :
        /\ sockets[ws].phase = "sending" <=> sockets[ws].targets # {}
        /\ sockets[ws].phase = "sending" => sockets[ws].state = "open"
        /\ \A to \in sockets[ws].targets :
              /\ sockets[to].state # "idle"
              /\ sockets[to].blog_id = sockets[ws].blog_id
              /\ \A k \in DOMAIN sockets[to].received :
                     sockets[to].received[k] # sockets[ws].outgoing[1]

C21_InFlight ==
    \A ws \in WebSockets :
        Sending(ws) =>
            /\ sockets'[ws].targets \subseteq sockets[ws].targets
            /\ \A to \in WebSockets :
                  /\ Joins(to) =>
                        /\ to \notin sockets'[ws].targets
                        /\ sockets'[to].received = << >>
                        /\ sockets'[ws] = sockets[ws]
                  /\ Leaves(to) /\ to # ws =>
                        /\ sockets'[ws].state = "open"
                        /\ sockets[ws].targets \ {to} \subseteq sockets'[ws].targets
                        /\ sockets'[ws].targets # {} =>
                              /\ sockets'[ws].phase = "sending"
                              /\ sockets'[ws].outgoing = sockets[ws].outgoing
                  /\ sockets'[to].received # sockets[to].received =>
                        /\ \E from \in WebSockets :
                               /\ Sending(from) /\ to \in sockets[from].targets
                               /\ sockets'[from].targets = sockets[from].targets \ {to}
            /\ sockets'[ws].targets # sockets[ws].targets =>
                  /\ \A b \in BlogIds : Room(b)' \subseteq Room(b)
                  /\ DOMAIN connections' \subseteq DOMAIN connections
                  /\ \E to \in sockets[ws].targets :
                        /\ sockets'[ws].targets = sockets[ws].targets \ {to}
                        /\ \/ sockets'[to].received =
                                  Append(sockets[to].received, sockets[ws].outgoing[1])
                           \/ /\ sockets'[to].received = sockets[to].received
                              /\ ~InRoom(to)'

\* C21: a broadcast sends to the websockets that were in the room when it
\* started: while it is in flight its set of websockets still to be sent to
\* only shrinks, by the one websocket a send is attempted to, so a websocket
\* that joins meanwhile is not in it and receives nothing of it; a websocket
\* that leaves meanwhile takes no other websocket out of that set and does
\* not end the broadcast, which goes on until a send was attempted to each;
\* and a step of a broadcast adds no websocket and no room to the registry.
C21_SnapshotDelivery == []C21_SnapshotOnly /\ [][C21_InFlight]_vars

C21_Witness ==
    \E ws, late \in WebSockets :
        /\ ws # late
        /\ Sending(ws) /\ sockets[ws].targets = {ws}
        /\ sockets[ws].received = << >>
        /\ sockets[late].state = "open"
        /\ Room(sockets[ws].blog_id) = {ws, late}
        /\ sockets[late].received = << >>
        /\ Len(comments) = 1

Ended(ws) == sockets[ws].state \in {"closed", "aborted", "cancelled"}

\* C22: a websocket whose handler has ended, whatever ended it (the client
\* went away, an error while storing or broadcasting, the cancellation of
\* the handler), is in no room.
C22_EndedLeftItsRoom ==
    \A ws \in WebSockets : Ended(ws) => ~InRoom(ws)

NoEmptyRoom(registry) == \A b \in DOMAIN registry : registry[b] # {}

C23_RoomsHaveMembers ==
    /\ NoEmptyRoom(connections)
    /\ DOMAIN connections \subseteq DOMAIN blogs
    /\ \A b \in DOMAIN connections :
          \A ws \in connections[b] :
              sockets[ws].state \notin {"idle", "refused"} /\ sockets[ws].blog_id = b
    /\ \A b \in BlogIds, ws \in WebSockets :
          /\ ws \notin Room(b) => chat_disconnect(b, ws) = connections
          /\ ws \in Room(b) =>
                LET left == chat_disconnect(b, ws)
                IN /\ NoEmptyRoom(left)
                   /\ b \in DOMAIN left <=> connections[b] # {ws}
                   /\ b \in DOMAIN left => left[b] = connections[b] \ {ws}
                   /\ \A other \in DOMAIN connections \ {b} :
                          other \in DOMAIN left /\ left[other] = connections[other]
          /\ LET joined == chat_connect(b, ws)
             IN /\ NoEmptyRoom(joined)
                /\ DOMAIN joined = DOMAIN connections \cup {b}
                /\ joined[b] = Room(b) \cup {ws}

C23_CreatedAndPruned ==
    \A b \in BlogIds :
        /\ b \notin DOMAIN connections /\ b \in DOMAIN connections' =>
              \E ws \in WebSockets : Joins(ws) /\ connections'[b] = {ws}
        /\ b \in DOMAIN connections /\ b \notin DOMAIN connections' =>
              \E ws \in WebSockets : connections[b] = {ws}

\* C23: the registry holds no empty room: connect creates the room of a
\* post with its first websocket, disconnect of the last websocket of a
\* room removes the room, and a room leaves the registry in no other way;
\* disconnect of a websocket that is not in the room, or for a post without
\* a room, leaves the registry as it is.
C23_NoEmptyRoomKept == []C23_RoomsHaveMembers /\ [][C23_CreatedAndPruned]_vars

C23_Witness ==
    \E gone, here \in WebSockets :
        /\ sockets[gone].state = "closed"
        /\ sockets[gone].blog_id \notin DOMAIN connections
        /\ sockets[here].state = "open"
        /\ DOMAIN connections = {sockets[here].blog_id}
        /\ connections[sockets[here].blog_id] = {here}
        /\ chat_disconnect(sockets[gone].blog_id, gone) = connections
        /\ chat_disconnect(sockets[here].blog_id, gone) = connections

\* The comments of one connection, in the order their frames were
\* handled: the table grows by one row per handled frame.
SentBefore(i, j) ==
    /\ i < j
    /\ comments[i].session = comments[j].session

C24_InSendOrder ==
    \A i \in DOMAIN comments, j \in DOMAIN comments :
        SentBefore(i, j) =>
            /\ comments[i].id < comments[j].id
            /\ comments[i].created_at < comments[j].created_at
            /\ \A to \in WebSockets :
                  \A k \in FramesOf(comments[i].id, to), l \in FramesOf(comments[j].id, to) :
                      /\ k < l
                      /\ sockets[to].received[k].comment_id
                            < sockets[to].received[l].comment_id
                      /\ sockets[to].received[k].created_at
                            < sockets[to].received[l].created_at

C24_OneBroadcastAtATime ==
    \A ws \in WebSockets :
        comments' # comments /\ comments'[Len(comments')].session = ws =>
            /\ sockets[ws].phase = "receive"
            /\ sockets[ws].targets = {}
            /\ \A to \in WebSockets : sockets'[to].received = sockets[to].received

\* C24: when one connection sends comment A and then comment B, A is
\* stored with the smaller id and the earlier timestamp, the handler takes
\* B only once the broadcast of A has been sent to every websocket of its
\* snapshot, and every websocket that receives both receives A before B.
C24_PerConnectionOrder == []C24_InSendOrder /\ [][C24_OneBroadcastAtATime]_vars

C24_Witness ==
    \E ws, other \in WebSockets :
        /\ ws # other
        /\ Len(comments) = 2
        /\ comments[1].session = ws /\ comments[2].session = ws
        /\ sockets[other].received = <<outgoing(comments[1]), outgoing(comments[2])>>
        /\ sockets[ws].received = <<outgoing(comments[1]), outgoing(comments[2])>>
        /\ comments[1].created_at < comments[2].created_at

\* The value of a field after an edit: the supplied one, or the old one.
Patched(old, supplied) == IF supplied = Unset THEN old ELSE supplied

C25_PatchOnly ==
    \A actor \in Actors, id \in DOMAIN blogs, data \in UpdatePayloads :
        \A row \in update_blog_endpoint(actor, id, data).write :
            /\ row.title = Patched(blogs[id].title, data.title)
            /\ row.content = Patched(blogs[id].content, data.content)
            /\ row.images = Patched(blogs[id].images, data.images)
            /\ row.updated_at = now
            /\ [row EXCEPT !.title = "", !.content = "", !.images = "",
                           !.updated_at = 0]
                 = [blogs[id] EXCEPT !.title = "", !.content = "", !.images = "",
                                     !.updated_at = 0]
            /\ blogs[id].status = REJECTED => row.status = REJECTED

C25_RejectedAuthorEdits ==
    \A id \in DOMAIN blogs, data \in UpdatePayloads :
        Live(id) /\ blogs[id].status = REJECTED =>
            /\ update_blog_endpoint(blogs[id].author_id, id, data).response.status_code = 200
            /\ update_blog_endpoint(blogs[id].author_id, id, data).write # {}

C25_EditStep ==
    Writes /\ last'.op = "edit" =>
        LET id == last'.blog_id
        IN /\ \E data \in UpdatePayloads :
                 blogs'[id] = [blogs[id] EXCEPT
                                  !.title = Patched(@, data.title),
                                  !.content = Patched(@, data.content),
                                  !.images = Patched(@, data.images),
                                  !.updated_at = now]
           /\ blogs'[id].updated_at > blogs[id].updated_at
           /\ blogs'[id].status = blogs[id].status
           /\ blogs'[id].author_id = blogs[id].author_id
           /\ blogs'[id].created_at = blogs[id].created_at
           /\ blogs'[id].deleted_at = blogs[id].deleted_at
           /\ \A other \in DOMAIN blogs \ {id} : blogs'[other] = blogs[other]
           /\ Len(blogs') = Len(blogs)
           /\ notified' = notified /\ creating' = creating /\ clients' = clients

\* C25: an edit that succeeds sets the fields of title, content and images
\* that the request supplies and the updated timestamp, and leaves the
\* other fields of the post, every other post and the published events as
\* they are; the author's edit of a REJECTED post succeeds and the post
\* stays REJECTED.
C25_EditChangesSuppliedFields ==
    /\ []C25_PatchOnly /\ []C25_RejectedAuthorEdits
    /\ [][C25_EditStep]_vars

C25_Witness ==
    \E id \in DOMAIN blogs :
        /\ last.op = "edit" /\ last.blog_id = id /\ last.status_code = 200
        /\ last.caller = blogs[id].author_id
        /\ UserRoleOf(last.caller) = USER
        /\ blogs[id].status = REJECTED
        /\ blogs[id].title = "T3" /\ blogs[id].content = "C1"
        /\ blogs[id].updated_at > blogs[id].created_at
        /\ ~InFlight(id)
        /\ BagCardinality(notified) = 1

\* A request whose UPDATE is written in this step.
Written(request) == request \in requests /\ request \notin requests'
Moderation(request) == request.op \in {"approve", "reject"}

\* C26: of the approves and rejects of a post that loaded it as PENDING, one
\* returns success: each is written while the post is still PENDING, so
\* none of them overwrites the status another of them has set.
C26_OneTransitionOutOfPending ==
    [][\A request \in requests :
          /\ Written(request)
          /\ Moderation(request)
          /\ request.loaded.status = PENDING
          => blogs[request.blog_id].status = PENDING]_vars

\* C27: the title, content and images of a post that is APPROVED when the
\* change is written are changed only by the edit of an ADMIN.
C27_ApprovedEditedByAdminOnly ==
    [][\A id \in DOMAIN blogs :
          /\ blogs[id].status = APPROVED
          /\ \/ blogs'[id].title # blogs[id].title
             \/ blogs'[id].content # blogs[id].content
             \/ blogs'[id].images # blogs[id].images
          => /\ last'.op = "edit" /\ last'.blog_id = id
             /\ UserRoleOf(last'.caller) = ADMIN]_vars

\* C28: once the connection that sent it has ended, a comment that a
\* websocket has received is committed: the transaction of a connection is
\* not rolled back after one of its comments was broadcast.
C28_BroadcastCommentsCommitted ==
    \A to \in WebSockets :
        \A k \in DOMAIN sockets[to].received :
            LET sender == comments[sockets[to].received[k].comment_id].session
            IN Ended(sender) => get_db(sender) = "committed"

\* C29: a comment is stored, and its message built for broadcast, only for
\* a post that is not deleted and is visible to the sender when the frame
\* is handled.
C29_NoCommentOnHiddenPost ==
    [][comments' # comments =>
          LET comment == comments'[Len(comments')]
          IN /\ Live(comment.blog_id)
             /\ MayView(comment.user_id, comment.blog_id)]_vars

\* C30: a websocket whose handler is running is in the room of its post,
\* so the websockets a broadcast is sent to include the sender.
C30_RunningIsMember ==
    \A ws \in WebSockets :
        /\ sockets[ws].state = "open" => ws \in Room(sockets[ws].blog_id)
        /\ sockets[ws].phase = "persisted" => ws \in broadcast(sockets[ws].blog_id)

=============================================================================
